---- MODULE Spec2Model ----
(***************************************************************************)
(* Model of the TransactionBuilder of iota.go (transaction_builder.go).    *)
(*                                                                         *)
(* The builder b is one heap object with the fields occurredBuildErr,      *)
(* essence and inputToAddr.  b.essence is a pointer to one                 *)
(* TransactionEssence allocated by NewTransactionBuilder and never         *)
(* re-allocated; a Transaction returned by Build stores that same pointer. *)
(* Every exported method is one action.  The external collaborators        *)
(* (node query, filter, signing message, signer, serializer) are inputs of *)
(* the actions, and every call made to them is logged in last.calls.       *)
(* added is a history variable: the inputs and the outputs handed to the   *)
(* builder so far, in call order.                                          *)
(***************************************************************************)
EXTENDS Integers, Sequences, FiniteSets, TLC

VARIABLES b, sigTxPayload, last, added, msgBuilder

vars == <<b, sigTxPayload, last, added, msgBuilder>>

(* ------------------------------ bounds -------------------------------- *)

MaxInputs == 3

MaxOutputs == 1

\* the bounds of SpecAccum and SpecSwap
MaxOrdInputs == 2

MaxOrdOutputs == 2

\* the largest position of SpecNarrow
MaxPos == 65540

(* ------------------------- values of the model ------------------------ *)

Nil == "nil"

Ed25519 == "Ed25519Address"

\* an Address: its concrete kind and the string its Stringer yields
Addresses ==
    { [kind |-> Ed25519, str |-> "X"],
      [kind |-> "OtherAddress", str |-> "Y"] }

\* UTXOInput identities (OutputID)
OutputIDs == {1, 2}

OutputValues == {"o1"}

\* the outputs of SpecAccum
OrdOutputValues == {"o1", "o2"}

Payloads == {"p1"}

ErrTransactionBuilderUnsupportedAddress == "unsupported address type"

ErrMissingParas == "transaction builder error: must supply de/serialization parameters"

ErrMissingSigner == "transaction builder error: must supply signer"

QueryErrors == {"network error", "context canceled"}

ErrSigningMessage == "signing message error"

ErrSign == "signing failed"

ErrValidation == "validation error"

NilSigner == [nil |-> TRUE, fails |-> {}]

\* an AddressSigner: the addresses for which Sign returns an error
Signers ==
    {NilSigner} \cup
    { [nil |-> FALSE, fails |-> F] : F \in {{}} \cup { {a} : a \in Addresses } }

NilTransaction == [Essence |-> Nil, UnlockBlocks |-> <<>>]

\* the one TransactionEssence object, as a pointer value
EssencePtr == "b.essence"

(* ---------------------------- constructor ----------------------------- *)

NewTransactionBuilder ==
    [ occurredBuildErr |-> Nil,
      essence |-> [Inputs |-> <<>>, Outputs |-> <<>>, Payload |-> Nil],
      inputToAddr |-> <<>> ]

(* ------------------------- accumulation methods ----------------------- *)

\* fmt.Stringer of an address
String(addr) == addr.str

\* variant: the owner recorded first for an input ID is kept
AddInputKeepFirst(bb, addr, id) ==
    [bb EXCEPT !.inputToAddr = bb.inputToAddr @@ (id :> addr),
               !.essence.Inputs = Append(bb.essence.Inputs, id)]

\* AddInput: b.inputToAddr[input.Input.ID()] = input.Address, then append
AddInput(bb, addr, id) ==
    [bb EXCEPT !.inputToAddr = (id :> addr) @@ bb.inputToAddr,
               !.essence.Inputs = Append(bb.essence.Inputs, id)]

AddOutput(bb, output) ==
    [bb EXCEPT !.essence.Outputs = Append(bb.essence.Outputs, output)]

\* variant: a payload that is already set is kept
AddIndexationPayloadKeepFirst(bb, payload) ==
    IF bb.essence.Payload # Nil THEN bb
    ELSE [bb EXCEPT !.essence.Payload = payload]

AddIndexationPayload(bb, payload) ==
    [bb EXCEPT !.essence.Payload = payload]

(* --------------------------- input discovery -------------------------- *)

NilFilter == [nil |-> TRUE, pass |-> {}]

\* a TransactionBuilderInputFilter: the inputs it lets pass
Filters == {NilFilter} \cup { [nil |-> FALSE, pass |-> P] : P \in {{1}, OutputIDs} }

\* the orders in which "range unspentOutputs" can yield the keys of the map
\* the node returned: every sequence without repetition over OutputIDs
RangeOrders ==
    { s \in UNION { [1..n -> OutputIDs] : n \in 0..Cardinality(OutputIDs) } :
        \A i, j \in DOMAIN s : i # j => s[i] # s[j] }

\* one iteration of the loop over unspentOutputs; st = [b, calls]
AdmitStep(st, addr, filter, utxoInput) ==
    IF ~filter.nil
    THEN IF utxoInput \notin filter.pass
         THEN [st EXCEPT !.calls = Append(@, <<"filter", utxoInput>>)]
         ELSE [b |-> AddInput(st.b, addr, utxoInput),
               calls |-> st.calls \o <<<<"filter", utxoInput>>,
                                       <<"AddInput", utxoInput, addr>>>>]
    ELSE [b |-> AddInput(st.b, addr, utxoInput),
          calls |-> Append(st.calls, <<"AddInput", utxoInput, addr>>)]

\* the inputs handed to AddInput in a log of calls, in call order
RECURSIVE AddInputCalls(_)
AddInputCalls(calls) ==
    IF calls = <<>> THEN <<>>
    ELSE IF Head(calls)[1] = "AddInput"
         THEN <<Head(calls)[2]>> \o AddInputCalls(Tail(calls))
         ELSE AddInputCalls(Tail(calls))

Range(s) == { s[i] : i \in DOMAIN s }

RECURSIVE AdmitLoop(_, _, _, _, _)
AdmitLoop(st, addr, filter, iter, k) ==
    IF k > Len(iter) THEN st
    ELSE AdmitLoop(AdmitStep(st, addr, filter, iter[k]), addr, filter, iter, k + 1)

\* the type switch on addr
CheckAddrKind(bb, addr) ==
    IF addr.kind = Ed25519 THEN bb
    ELSE [bb EXCEPT !.occurredBuildErr = ErrTransactionBuilderUnsupportedAddress]

\* variant: a failed query returns without recording its error
HandleQueryResultDropErr(bb, addr, queryErr, filter, iter) ==
    IF queryErr # Nil
    THEN [b |-> bb, calls |-> <<<<"OutputsByEd25519Address", addr>>>>]
    ELSE AdmitLoop([b |-> bb, calls |-> <<<<"OutputsByEd25519Address", addr>>>>],
                   addr, filter, iter, 1)

\* variant: the error of the query is stored before it is tested, which
\* clears the slot when the query succeeds
HandleQueryResultClear(bb, addr, queryErr, filter, iter) ==
    IF queryErr # Nil
    THEN [b |-> [bb EXCEPT !.occurredBuildErr = queryErr],
          calls |-> <<<<"OutputsByEd25519Address", addr>>>>]
    ELSE AdmitLoop([b |-> [bb EXCEPT !.occurredBuildErr = queryErr],
                    calls |-> <<<<"OutputsByEd25519Address", addr>>>>],
                   addr, filter, iter, 1)

\* the handling of the node query's result; queryErr is the err returned by
\* OutputsByEd25519Address, iter the iteration order over unspentOutputs
HandleQueryResult(bb, addr, queryErr, filter, iter) ==
    IF queryErr # Nil
    THEN [b |-> [bb EXCEPT !.occurredBuildErr = queryErr],
          calls |-> <<<<"OutputsByEd25519Address", addr>>>>]
    ELSE AdmitLoop([b |-> bb, calls |-> <<<<"OutputsByEd25519Address", addr>>>>],
                   addr, filter, iter, 1)

\* the whole method; the unchecked type assertion addr.(*Ed25519Address) in
\* the argument list of the query panics for every other kind of address,
\* before the query is issued
AddInputsViaNodeQuery(bb, addr, queryErr, filter, iter) ==
    LET b1 == CheckAddrKind(bb, addr)
    IN IF addr.kind # Ed25519
       THEN [b |-> b1, ret |-> "panic", calls |-> <<>>]
       ELSE LET r == HandleQueryResult(b1, addr, queryErr, filter, iter)
            IN [b |-> r.b, ret |-> "builder", calls |-> r.calls]

(* -------------------------------- Build ------------------------------- *)

Uint16Mod == 65536

\* the conversion uint16(pos)
Uint16(pos) == pos % Uint16Mod

\* TransactionEssence.SigningMessage: the serialized essence
SigningMessage(essence) ==
    <<"essence", essence.Inputs, essence.Outputs, essence.Payload>>

\* AddressSigner.Sign on success: the signature is identified by the address
\* that signed; the message handed to the signer is in the logged call
Sign(addr, msg) == [addr |-> addr]

SignatureUnlockBlock(signature) == [type |-> "Signature", Signature |-> signature]

ReferenceUnlockBlock(reference) == [type |-> "Reference", Reference |-> reference]

\* variant: the signer is tested before the parameters
PreconditionErrSignerFirst(bb, deSeriParas, signer) ==
    IF bb.occurredBuildErr # Nil THEN bb.occurredBuildErr
    ELSE IF signer.nil THEN ErrMissingSigner
    ELSE IF deSeriParas = Nil THEN ErrMissingParas
    ELSE Nil

\* the switch at the head of Build: the error it returns, or Nil
PreconditionErr(bb, deSeriParas, signer) ==
    IF bb.occurredBuildErr # Nil THEN bb.occurredBuildErr
    ELSE IF deSeriParas = Nil THEN ErrMissingParas
    ELSE IF signer.nil THEN ErrMissingSigner
    ELSE Nil

\* variant: a reference block also re-records the position of its address
UnlockStepRerecord(bb, signer, txEssenceData, i, st) ==
    LET input == bb.essence.Inputs[i + 1]
        addr == bb.inputToAddr[input]
        addrStr == String(addr)
    IN IF addrStr \in DOMAIN st.sigBlockPos
       THEN [st EXCEPT !.unlockBlocks =
                           Append(@, ReferenceUnlockBlock(Uint16(st.sigBlockPos[addrStr]))),
                       !.sigBlockPos = (addrStr :> i) @@ @]
       ELSE IF addr \in signer.fails
       THEN [st EXCEPT !.err = ErrSign,
                       !.calls = Append(@, <<"Sign", addr, txEssenceData>>)]
       ELSE [st EXCEPT !.unlockBlocks =
                           Append(@, SignatureUnlockBlock(Sign(addr, txEssenceData))),
                       !.sigBlockPos = (addrStr :> i) @@ @,
                       !.calls = Append(@, <<"Sign", addr, txEssenceData>>)]

\* variant: an already signed address continues without appending a block
UnlockStepSkipRef(bb, signer, txEssenceData, i, st) ==
    LET input == bb.essence.Inputs[i + 1]
        addr == bb.inputToAddr[input]
        addrStr == String(addr)
    IN IF addrStr \in DOMAIN st.sigBlockPos
       THEN st
       ELSE IF addr \in signer.fails
       THEN [st EXCEPT !.err = ErrSign,
                       !.calls = Append(@, <<"Sign", addr, txEssenceData>>)]
       ELSE [st EXCEPT !.unlockBlocks =
                           Append(@, SignatureUnlockBlock(Sign(addr, txEssenceData))),
                       !.sigBlockPos = (addrStr :> i) @@ @,
                       !.calls = Append(@, <<"Sign", addr, txEssenceData>>)]

\* variant: the position of a new signature block is not recorded, so every
\* input is signed
UnlockStepNoRecord(bb, signer, txEssenceData, i, st) ==
    LET input == bb.essence.Inputs[i + 1]
        addr == bb.inputToAddr[input]
        addrStr == String(addr)
    IN IF addrStr \in DOMAIN st.sigBlockPos
       THEN [st EXCEPT !.unlockBlocks =
                Append(@, ReferenceUnlockBlock(Uint16(st.sigBlockPos[addrStr])))]
       ELSE IF addr \in signer.fails
       THEN [st EXCEPT !.err = ErrSign,
                       !.calls = Append(@, <<"Sign", addr, txEssenceData>>)]
       ELSE [st EXCEPT !.unlockBlocks =
                           Append(@, SignatureUnlockBlock(Sign(addr, txEssenceData))),
                       !.calls = Append(@, <<"Sign", addr, txEssenceData>>)]

\* the body of the loop over b.essence.Inputs for the input at 0-based
\* position i; st = [sigBlockPos, unlockBlocks, err, calls]
UnlockStep(bb, signer, txEssenceData, i, st) ==
    LET input == bb.essence.Inputs[i + 1]
        addr == bb.inputToAddr[input]
        addrStr == String(addr)
    IN IF addrStr \in DOMAIN st.sigBlockPos
       THEN [st EXCEPT !.unlockBlocks =
                Append(@, ReferenceUnlockBlock(Uint16(st.sigBlockPos[addrStr])))]
       ELSE IF addr \in signer.fails
       THEN [st EXCEPT !.err = ErrSign,
                       !.calls = Append(@, <<"Sign", addr, txEssenceData>>)]
       ELSE [st EXCEPT !.unlockBlocks =
                           Append(@, SignatureUnlockBlock(Sign(addr, txEssenceData))),
                       !.sigBlockPos = (addrStr :> i) @@ @,
                       !.calls = Append(@, <<"Sign", addr, txEssenceData>>)]

\* variant: the loop goes on after a signer error
RECURSIVE UnlockLoopNoAbort(_, _, _, _, _)
UnlockLoopNoAbort(bb, signer, txEssenceData, i, st) ==
    IF i >= Len(bb.essence.Inputs) THEN st
    ELSE UnlockLoopNoAbort(bb, signer, txEssenceData, i + 1,
                           UnlockStep(bb, signer, txEssenceData, i, st))

\* the loop: it returns at the first signer error
RECURSIVE UnlockLoop(_, _, _, _, _)
UnlockLoop(bb, signer, txEssenceData, i, st) ==
    IF i >= Len(bb.essence.Inputs) \/ st.err # Nil THEN st
    ELSE UnlockLoop(bb, signer, txEssenceData, i + 1,
                    UnlockStep(bb, signer, txEssenceData, i, st))

\* variant: the error of Serialize is dropped
FinishIgnoreErr(deSeriParas, st, serErr) ==
    LET sigTx == [Essence |-> EssencePtr, UnlockBlocks |-> st.unlockBlocks]
        calls == Append(st.calls, <<"Serialize", "DeSeriModePerformValidation",
                                    deSeriParas, sigTx>>)
    IN [tx |-> sigTx, err |-> Nil, calls |-> calls]

\* the tail of Build: the Transaction is serialized with validation; serErr is
\* the error of Serialize
Finish(deSeriParas, st, serErr) ==
    LET sigTx == [Essence |-> EssencePtr, UnlockBlocks |-> st.unlockBlocks]
        calls == Append(st.calls, <<"Serialize", "DeSeriModePerformValidation",
                                    deSeriParas, sigTx>>)
    IN IF serErr # Nil
       THEN [tx |-> NilTransaction, err |-> serErr, calls |-> calls]
       ELSE [tx |-> sigTx, err |-> Nil, calls |-> calls]

\* Build; smErr is the error of SigningMessage, serErr the error of Serialize
Build(bb, deSeriParas, signer, smErr, serErr) ==
    IF PreconditionErr(bb, deSeriParas, signer) # Nil
    THEN [tx |-> NilTransaction, err |-> PreconditionErr(bb, deSeriParas, signer),
          calls |-> <<>>]
    ELSE LET txEssenceData == SigningMessage(bb.essence)
             first == <<<<"SigningMessage", txEssenceData>>>>
         IN IF smErr # Nil
            THEN [tx |-> NilTransaction, err |-> smErr, calls |-> first]
            ELSE LET st == UnlockLoop(bb, signer, txEssenceData, 0,
                                [sigBlockPos |-> <<>>, unlockBlocks |-> <<>>,
                                 err |-> Nil, calls |-> first])
                 IN IF st.err # Nil
                    THEN [tx |-> NilTransaction, err |-> st.err, calls |-> st.calls]
                    ELSE Finish(deSeriParas, st, serErr)

\* variant: Build sorts the inputs and outputs of the essence in place
BuilderAfterBuildSorted(bb) ==
    [bb EXCEPT !.essence.Inputs = SortSeq(@, LAMBDA x, y : x < y),
               !.essence.Outputs = SortSeq(@, LAMBDA x, y : x = "o1" /\ y = "o2")]

\* variant: Build clears the sticky error once it has reported it
BuilderAfterBuildClearErr(bb) ==
    [bb EXCEPT !.occurredBuildErr = Nil]

\* the builder after Build: Build assigns no field of b or of *b.essence
BuilderAfterBuild(bb) == bb

\* NewMessageBuilder: a message builder with no payload and no error
NewMessageBuilder == [payload |-> NilTransaction, err |-> Nil]

\* MessageBuilder.Payload: sets the payload of the message under construction
Payload(mb, seri) == [mb EXCEPT !.payload = seri]

\* the hooks a caller passes as txFunc: none, or one that observes the
\* Transaction
TxFuncs == {Nil, "txFunc"}

\* variant: the hook is invoked before the error of Build is tested
BuildAndSwapToMessageBuilderHookFirst(bb, deSeriParas, signer, txFunc, smErr, serErr) ==
    LET r == Build(bb, deSeriParas, signer, smErr, serErr)
        mb == NewMessageBuilder
        hooked == IF txFunc # Nil THEN Append(r.calls, <<"txFunc", r.tx>>)
                  ELSE r.calls
    IN IF r.err # Nil
       THEN [msgBuilder |-> [mb EXCEPT !.err = r.err], tx |-> r.tx, calls |-> hooked]
       ELSE [msgBuilder |-> Payload(mb, r.tx), tx |-> r.tx,
             calls |-> Append(hooked, <<"Payload", r.tx>>)]

\* BuildAndSwapToMessageBuilder: the message builder it returns, and the
\* calls it made
BuildAndSwapToMessageBuilder(bb, deSeriParas, signer, txFunc, smErr, serErr) ==
    LET r == Build(bb, deSeriParas, signer, smErr, serErr)
        mb == NewMessageBuilder
    IN IF r.err # Nil
       THEN [msgBuilder |-> [mb EXCEPT !.err = r.err], tx |-> r.tx, calls |-> r.calls]
       ELSE LET hooked == IF txFunc # Nil THEN Append(r.calls, <<"txFunc", r.tx>>)
                          ELSE r.calls
            IN [msgBuilder |-> Payload(mb, r.tx), tx |-> r.tx,
                calls |-> Append(hooked, <<"Payload", r.tx>>)]

\* the TransactionEssence a Transaction's Essence pointer refers to
Deref(ptr) == b.essence

(* ------------------------------ actions ------------------------------- *)

\* the record of the latest call: the method, its arguments and the results
\* of the collaborators, what it returned, and the calls it made
Call(op, args, ret, err, calls) ==
    [op |-> op, args |-> args, ret |-> ret, err |-> err, calls |-> calls]

Init ==
    /\ b = NewTransactionBuilder
    /\ sigTxPayload = NilTransaction
    /\ last = Call("NewTransactionBuilder", <<>>, "builder", Nil, <<>>)
    /\ added = [inputs |-> <<>>, outputs |-> <<>>]
    /\ msgBuilder = NewMessageBuilder

DoAddInput ==
    \E addr \in Addresses, id \in OutputIDs :
        /\ Len(b.essence.Inputs) < MaxInputs
        /\ b' = AddInput(b, addr, id)
        /\ last' = Call("AddInput", [addr |-> addr, id |-> id], "builder", Nil, <<>>)
        /\ added' = [added EXCEPT !.inputs = Append(@, id)]
        /\ UNCHANGED <<sigTxPayload, msgBuilder>>

DoAddOutput ==
    \E output \in OutputValues :
        /\ Len(b.essence.Outputs) < MaxOutputs
        /\ b' = AddOutput(b, output)
        /\ last' = Call("AddOutput", [output |-> output], "builder", Nil, <<>>)
        /\ added' = [added EXCEPT !.outputs = Append(@, output)]
        /\ UNCHANGED <<sigTxPayload, msgBuilder>>

DoAddIndexationPayload ==
    \E payload \in Payloads \cup {Nil} :
        /\ b' = AddIndexationPayload(b, payload)
        /\ last' = Call("AddIndexationPayload", [payload |-> payload], "builder", Nil, <<>>)
        /\ UNCHANGED <<sigTxPayload, added, msgBuilder>>

\* resp is the order in which the node lists the unspent outputs; the client
\* hands them over as a map, and iter is the order in which the range loop
\* yields the keys of that map
DoAddInputsViaNodeQuery ==
    \E addr \in Addresses, queryErr \in QueryErrors \cup {Nil},
       filter \in Filters, resp \in RangeOrders, iter \in RangeOrders :
        /\ Range(iter) = Range(resp)
        /\ Len(b.essence.Inputs) + Len(iter) <= MaxInputs
        \* a query that is not issued has no result, one that fails no outputs
        /\ addr.kind # Ed25519 => queryErr = Nil
        /\ (addr.kind # Ed25519 \/ queryErr # Nil) => iter = <<>>
        /\ LET r == AddInputsViaNodeQuery(b, addr, queryErr, filter, iter)
           IN /\ b' = r.b
              /\ last' = Call("AddInputsViaNodeQuery",
                              [addr |-> addr, queryErr |-> queryErr,
                               filter |-> filter, resp |-> resp, iter |-> iter],
                              r.ret, Nil, r.calls)
              /\ added' = [added EXCEPT !.inputs = @ \o AddInputCalls(r.calls)]
        /\ UNCHANGED <<sigTxPayload, msgBuilder>>

DoBuild ==
    \E deSeriParas \in {Nil, "paras"}, signer \in Signers,
       smErr \in {Nil, ErrSigningMessage}, serErr \in {Nil, ErrValidation} :
        LET r == Build(b, deSeriParas, signer, smErr, serErr)
        IN \* a call that is not reached has no result
           /\ PreconditionErr(b, deSeriParas, signer) # Nil => smErr = Nil
           /\ (PreconditionErr(b, deSeriParas, signer) # Nil \/ smErr # Nil) => serErr = Nil
           /\ sigTxPayload' = IF r.err = Nil THEN r.tx ELSE sigTxPayload
           /\ last' = Call("Build",
                           [deSeriParas |-> deSeriParas, signer |-> signer,
                            smErr |-> smErr, serErr |-> serErr],
                           IF r.err = Nil THEN "tx" ELSE "error", r.err, r.calls)
           /\ b' = BuilderAfterBuild(b)
           /\ UNCHANGED <<added, msgBuilder>>

Next ==
    \/ DoAddInput
    \/ DoAddOutput
    \/ DoAddIndexationPayload
    \/ DoAddInputsViaNodeQuery
    \/ DoBuild

Spec == Init /\ [][Next]_vars

(* ----- SpecAccum: AddInput, AddOutput and Build, with two outputs ------ *)

DoAddInputOrd ==
    \E addr \in Addresses, id \in OutputIDs :
        /\ Len(b.essence.Inputs) < MaxOrdInputs
        /\ b' = AddInput(b, addr, id)
        /\ last' = Call("AddInput", [addr |-> addr, id |-> id], "builder", Nil, <<>>)
        /\ added' = [added EXCEPT !.inputs = Append(@, id)]
        /\ UNCHANGED <<sigTxPayload, msgBuilder>>

DoAddOutputOrd ==
    \E output \in OrdOutputValues :
        /\ Len(b.essence.Outputs) < MaxOrdOutputs
        /\ b' = AddOutput(b, output)
        /\ last' = Call("AddOutput", [output |-> output], "builder", Nil, <<>>)
        /\ added' = [added EXCEPT !.outputs = Append(@, output)]
        /\ UNCHANGED <<sigTxPayload, msgBuilder>>

NextAccum ==
    \/ DoAddInputOrd
    \/ DoAddOutputOrd
    \/ DoBuild

SpecAccum == Init /\ [][NextAccum]_vars

(* ------ SpecSwap: AddInput and BuildAndSwapToMessageBuilder ------------ *)

DoBuildAndSwapToMessageBuilder ==
    \E deSeriParas \in {Nil, "paras"}, signer \in Signers, txFunc \in TxFuncs,
       smErr \in {Nil, ErrSigningMessage}, serErr \in {Nil, ErrValidation} :
        LET r == BuildAndSwapToMessageBuilder(b, deSeriParas, signer, txFunc,
                                              smErr, serErr)
        IN \* a call that is not reached has no result
           /\ PreconditionErr(b, deSeriParas, signer) # Nil => smErr = Nil
           /\ (PreconditionErr(b, deSeriParas, signer) # Nil \/ smErr # Nil) => serErr = Nil
           /\ msgBuilder' = r.msgBuilder
           /\ sigTxPayload' = IF r.msgBuilder.err = Nil THEN r.tx ELSE sigTxPayload
           /\ last' = Call("BuildAndSwapToMessageBuilder",
                           [deSeriParas |-> deSeriParas, signer |-> signer,
                            txFunc |-> txFunc, smErr |-> smErr, serErr |-> serErr],
                           "msgBuilder", Nil, r.calls)
           /\ b' = BuilderAfterBuild(b)
           /\ UNCHANGED added

NextSwap ==
    \/ DoAddInputOrd
    \/ DoBuildAndSwapToMessageBuilder

SpecSwap == Init /\ [][NextSwap]_vars

(* ----- SpecNarrow: one pass of the loop body at a late position -------- *)

\* the address whose signature block was recorded, and the ID of its inputs
NarrowAddr == [kind |-> Ed25519, str |-> "X"]

\* The loop of Build stands at position pos + 1, at an input of an address
\* whose signature block was recorded at position pos; of b.essence.Inputs
\* only the input under the loop index is represented.
InitNarrow ==
    \E pos \in 0..MaxPos :
        /\ b = [NewTransactionBuilder EXCEPT
                    !.essence.Inputs = ((pos + 2) :> 1),
                    !.inputToAddr = (1 :> NarrowAddr)]
        /\ sigTxPayload = NilTransaction
        /\ last = Call("UnlockStep",
                       [i |-> pos + 1, sigBlockPos |-> (String(NarrowAddr) :> pos)],
                       "pending", Nil, <<>>)
        /\ added = [inputs |-> <<>>, outputs |-> <<>>]
        /\ msgBuilder = NewMessageBuilder

\* the loop body runs once; the block it appends is kept in sigTxPayload
DoUnlockStep ==
    /\ last.op = "UnlockStep"
    /\ last.ret = "pending"
    /\ LET st == UnlockStep(b, [nil |-> FALSE, fails |-> {}],
                            SigningMessage(NewTransactionBuilder.essence),
                            last.args.i,
                            [sigBlockPos |-> last.args.sigBlockPos,
                             unlockBlocks |-> <<>>, err |-> Nil, calls |-> <<>>])
       IN /\ sigTxPayload' = [Essence |-> EssencePtr, UnlockBlocks |-> st.unlockBlocks]
          /\ last' = [last EXCEPT !.ret = "block", !.err = st.err, !.calls = st.calls]
    /\ UNCHANGED <<b, added, msgBuilder>>

NextNarrow == DoUnlockStep

SpecNarrow == InitNarrow /\ [][NextNarrow]_vars

(* ------------------------ notions used by the claims ------------------ *)

Inputs == b.essence.Inputs

\* the owning address Build looks up for the input at 1-based index i
Owner(i) == b.inputToAddr[Inputs[i]]

\* the 1-based indices below i whose input has the same address string
Earlier(i) == { j \in 1..(i - 1) : String(Owner(j)) = String(Owner(i)) }

Min(S) == CHOOSE m \in S : \A n \in S : m <= n

\* the latest call was a Build that returned a Transaction: sigTxPayload is
\* that Transaction and b is as Build read it
BuildReturnedTx == last.op = "Build" /\ last.ret = "tx"

UnlockBlocks == sigTxPayload.UnlockBlocks

IsSign(c) == c[1] = "Sign"

(* -------------------------------- claims ------------------------------ *)

\* C1: after a successful Build the unlock block at position i is a signature
\* block iff no earlier input has the same address string; otherwise it is a
\* reference block whose reference is the smallest earlier position with that
\* address string, and that position holds a signature block; with k distinct
\* address strings there are exactly k signature blocks.
C1_UnlockBlockLayout ==
    BuildReturnedTx =>
        /\ \A i \in 1..Len(Inputs) :
              /\ i \in DOMAIN UnlockBlocks
              /\ (UnlockBlocks[i].type = "Signature") <=> (Earlier(i) = {})
              /\ Earlier(i) # {} =>
                    /\ UnlockBlocks[i].type = "Reference"
                    /\ UnlockBlocks[i].Reference = Min(Earlier(i)) - 1
                    /\ UnlockBlocks[Min(Earlier(i))].type = "Signature"
        /\ Cardinality({ i \in DOMAIN UnlockBlocks : UnlockBlocks[i].type = "Signature" })
              = Cardinality({ String(Owner(i)) : i \in 1..Len(Inputs) })

\* two address strings, and a reference block that points at position 1
C1_Witness ==
    /\ BuildReturnedTx
    /\ Len(Inputs) = 3
    /\ String(Owner(1)) # String(Owner(2))
    /\ UnlockBlocks[3] = ReferenceUnlockBlock(1)

\* C2: when Build returns a Transaction, it has as many unlock blocks as its
\* essence has inputs, and block i unlocks input i: it is a signature of the
\* owner of input i, or refers to a signature block of an address with the
\* owner's string.
C2_OneBlockPerInput ==
    BuildReturnedTx =>
        /\ Len(UnlockBlocks) = Len(Deref(sigTxPayload.Essence).Inputs)
        /\ \A i \in DOMAIN UnlockBlocks :
              \/ /\ UnlockBlocks[i].type = "Signature"
                 /\ UnlockBlocks[i].Signature = Sign(Owner(i), SigningMessage(b.essence))
              \/ /\ UnlockBlocks[i].type = "Reference"
                 /\ UnlockBlocks[i].Reference + 1 \in 1..(i - 1)
                 /\ UnlockBlocks[UnlockBlocks[i].Reference + 1].type = "Signature"
                 /\ String(UnlockBlocks[UnlockBlocks[i].Reference + 1].Signature.addr)
                       = String(Owner(i))

\* a Transaction with three inputs, built after outputs and a payload were set
C2_Witness ==
    /\ BuildReturnedTx
    /\ Len(Inputs) = 3
    /\ Len(UnlockBlocks) = 3
    /\ Len(b.essence.Outputs) > 0
    /\ b.essence.Payload # Nil
    /\ \E i \in 1..3 : UnlockBlocks[i].type = "Reference"

\* C3: Build tests its preconditions in the order sticky error, parameters,
\* signer; the first that fails decides the error; no Transaction is returned
\* and no collaborator is called.
C3_PreconditionOrder ==
    last.op = "Build" =>
        /\ b.occurredBuildErr # Nil =>
              /\ last.err = b.occurredBuildErr
              /\ last.ret = "error"
              /\ last.calls = <<>>
        /\ (b.occurredBuildErr = Nil /\ last.args.deSeriParas = Nil) =>
              /\ last.err = ErrMissingParas
              /\ last.ret = "error"
              /\ last.calls = <<>>
        /\ (b.occurredBuildErr = Nil /\ last.args.deSeriParas # Nil
                /\ last.args.signer.nil) =>
              /\ last.err = ErrMissingSigner
              /\ last.ret = "error"
              /\ last.calls = <<>>

\* neither parameters nor signer were supplied, and no error was recorded
C3_Witness ==
    /\ last.op = "Build"
    /\ b.occurredBuildErr = Nil
    /\ last.args.deSeriParas = Nil
    /\ last.args.signer.nil
    /\ last.err = ErrMissingParas
    /\ Len(Inputs) > 0

\* C4: AddInputsViaNodeQuery with an address of an unsupported kind returns
\* the builder with the unsupported-address error recorded, and a later Build
\* returns that error without calling the signer or the serializer.
C4_UnsupportedKindReturnsBuilder ==
    /\ (last.op = "AddInputsViaNodeQuery" /\ last.args.addr.kind # Ed25519) =>
          /\ last.ret = "builder"
          /\ b.occurredBuildErr = ErrTransactionBuilderUnsupportedAddress
    /\ (last.op = "Build"
            /\ b.occurredBuildErr = ErrTransactionBuilderUnsupportedAddress) =>
          /\ last.ret = "error"
          /\ last.err = ErrTransactionBuilderUnsupportedAddress
          /\ last.calls = <<>>

\* C5: a failed query records its error in the sticky slot, returns the
\* builder, leaves inputs, owner map, outputs and payload as they were and
\* never calls the filter.
C5_FailedQueryLeavesAccumulator ==
    [][(last'.op = "AddInputsViaNodeQuery" /\ last'.args.queryErr # Nil) =>
          /\ b'.occurredBuildErr = last'.args.queryErr
          /\ b'.essence = b.essence
          /\ b'.inputToAddr = b.inputToAddr
          /\ last'.ret = "builder"
          /\ \A k \in DOMAIN last'.calls : last'.calls[k][1] # "filter"]_vars

\* a failed query, with a filter supplied, on a builder that holds inputs,
\* outputs and a payload
C5_Witness ==
    /\ last.op = "AddInputsViaNodeQuery"
    /\ last.args.queryErr = "context canceled"
    /\ ~last.args.filter.nil
    /\ b.occurredBuildErr = "context canceled"
    /\ Len(Inputs) > 0
    /\ Len(b.essence.Outputs) > 0
    /\ b.essence.Payload # Nil

\* C6: when the signer fails during Build, Build returns the signer's error
\* and no Transaction, the failed call is the last call Build makes (no later
\* Sign, no Serialize).
C6_SignerFailureAborts ==
    (/\ last.op = "Build"
     /\ \E k \in DOMAIN last.calls :
            IsSign(last.calls[k]) /\ last.calls[k][2] \in last.args.signer.fails) =>
        /\ last.ret = "error"
        /\ last.err = ErrSign
        /\ \A k \in DOMAIN last.calls :
              (IsSign(last.calls[k]) /\ last.calls[k][2] \in last.args.signer.fails)
                  => k = Len(last.calls)
        /\ \A k \in DOMAIN last.calls : last.calls[k][1] # "Serialize"

\* the signer fails on the second distinct address
C6_Witness ==
    /\ last.op = "Build"
    /\ Len(last.calls) = 3
    /\ IsSign(last.calls[2]) /\ last.calls[2][2] \notin last.args.signer.fails
    /\ IsSign(last.calls[3]) /\ last.calls[3][2] \in last.args.signer.fails
    /\ Len(Inputs) = 3
    /\ last.err = ErrSign

\* C7: a recorded error is never cleared, and every Build made while it is
\* recorded returns an error and no Transaction.
C7_StickyError ==
    [][b.occurredBuildErr # Nil =>
          /\ b'.occurredBuildErr # Nil
          /\ last'.op = "Build" => (last'.ret = "error" /\ last'.err # Nil)]_vars

\* a Build with parameters and a working signer, on a builder that holds
\* inputs and a recorded query error
C7_Witness ==
    /\ last.op = "Build"
    /\ b.occurredBuildErr \in QueryErrors
    /\ last.args.deSeriParas # Nil
    /\ ~last.args.signer.nil
    /\ last.args.signer.fails = {}
    /\ Len(Inputs) > 0
    /\ last.ret = "error"

\* C8: the first recorded error wins: once a failed query has recorded its
\* error, no later call that returns replaces it by another error.
C8_FirstErrorWins ==
    [][(b.occurredBuildErr \in QueryErrors /\ last'.ret # "panic") =>
          b'.occurredBuildErr = b.occurredBuildErr]_vars

\* C9: once a failed query has recorded its error, every later accumulation
\* call is a no-op: inputs, owner map, outputs and payload stay as they are
\* and the call returns normally.
C9_NoOpAfterError ==
    [][(/\ b.occurredBuildErr \in QueryErrors
        /\ last'.op \in {"AddInput", "AddOutput", "AddIndexationPayload",
                         "AddInputsViaNodeQuery"}) =>
          /\ b'.essence = b.essence
          /\ b'.inputToAddr = b.inputToAddr
          /\ last'.ret = "builder"]_vars

\* C10: a returned Transaction is frozen: whatever is called on the builder
\* afterwards, it keeps as many inputs as it has unlock blocks.
C10_TransactionFrozen ==
    sigTxPayload # NilTransaction =>
        Len(sigTxPayload.UnlockBlocks) = Len(Deref(sigTxPayload.Essence).Inputs)

SignCalls == SelectSeq(last.calls, IsSign)

IsSerialize(c) == c[1] = "Serialize"

\* C12: Build returns a Transaction only if Serialize, called with validation
\* and the caller's parameters, accepted that very Transaction; Serialize is
\* called at most once, as the last call, after SigningMessage and after
\* Sign calls that all succeeded; when it rejects, Build returns its error
\* and no Transaction.
C12_SerializeDecides ==
    last.op = "Build" =>
        /\ last.ret = "tx" =>
              /\ last.calls # <<>>
              /\ last.calls[Len(last.calls)]
                    = <<"Serialize", "DeSeriModePerformValidation",
                        last.args.deSeriParas, sigTxPayload>>
              /\ last.args.serErr = Nil
        /\ Len(SelectSeq(last.calls, IsSerialize)) <= 1
        /\ \A k \in DOMAIN last.calls :
              IsSerialize(last.calls[k]) =>
                 /\ k = Len(last.calls)
                 /\ last.calls[1][1] = "SigningMessage"
                 /\ \A j \in 2..(k - 1) :
                       /\ IsSign(last.calls[j])
                       /\ last.calls[j][2] \notin last.args.signer.fails
        /\ ((\E k \in DOMAIN last.calls : IsSerialize(last.calls[k]))
                /\ last.args.serErr # Nil) =>
              /\ last.ret = "error"
              /\ last.err = last.args.serErr

\* Serialize rejects a Transaction with two signature blocks and a reference
C12_Witness ==
    /\ last.op = "Build"
    /\ last.err = ErrValidation
    /\ Len(SignCalls) = 2
    /\ Len(Inputs) = 3
    /\ IsSerialize(last.calls[4])

\* the positions at which an address string appears for the first time
FirstPositions == { i \in 1..Len(Inputs) : Earlier(i) = {} }

\* C15: in a Build that passes its preconditions and in which SigningMessage
\* and the signer do not fail, Sign is called exactly once per address
\* string of the inputs, in order of first appearance, every time with the
\* one message SigningMessage returned; without inputs Sign is not called
\* and there are no unlock blocks.
C15_OneSignPerAddress ==
    (/\ last.op = "Build"
     /\ PreconditionErr(b, last.args.deSeriParas, last.args.signer) = Nil
     /\ last.args.smErr = Nil
     /\ \A i \in 1..Len(Inputs) : Owner(i) \notin last.args.signer.fails) =>
        /\ Len(SelectSeq(last.calls, LAMBDA c : c[1] = "SigningMessage")) = 1
        /\ last.calls[1] = <<"SigningMessage", SigningMessage(b.essence)>>
        /\ Len(SignCalls) = Cardinality(FirstPositions)
        /\ \A i \in FirstPositions :
              SignCalls[Cardinality({ j \in FirstPositions : j <= i })]
                 = <<"Sign", Owner(i), SigningMessage(b.essence)>>
        /\ Len(Inputs) = 0 =>
              /\ SignCalls = <<>>
              /\ last.ret = "tx" => sigTxPayload.UnlockBlocks = <<>>

\* three inputs of two addresses, the second address first
C15_Witness ==
    /\ BuildReturnedTx
    /\ Len(Inputs) = 3
    /\ Len(SignCalls) = 2
    /\ String(Owner(1)) = "Y"
    /\ String(Owner(2)) = "X"

\* whether the filter lets the input pass (no filter lets every input pass)
Passes(filter, id) == filter.nil \/ id \in filter.pass

\* what C13 asks of a step that is a successful query whose outputs are
\* taken in the order order
AdmittedInOrder(order) ==
    LET args == last'.args
        admitted == SelectSeq(order, LAMBDA id : Passes(args.filter, id))
    IN /\ b'.essence.Inputs = b.essence.Inputs \o admitted
       /\ \A k \in DOMAIN admitted : b'.inputToAddr[admitted[k]] = args.addr
       /\ LET filterCalls == SelectSeq(last'.calls, LAMBDA c : c[1] = "filter")
          IN IF args.filter.nil THEN filterCalls = <<>>
             ELSE /\ Len(filterCalls) = Len(order)
                  /\ Range(filterCalls) = { <<"filter", id>> : id \in Range(order) }
       /\ b'.essence.Outputs = b.essence.Outputs
       /\ b'.essence.Payload = b.essence.Payload

QuerySucceeded ==
    /\ last.op = "AddInputsViaNodeQuery"
    /\ last.ret = "builder"
    /\ last.args.queryErr = Nil

\* C13: a successful query appends exactly the returned inputs the filter
\* lets pass, once each, after the inputs already present, in the order in
\* which the query yielded them, owned by the address of the call; the filter
\* is called once per returned pair; outputs and payload are unchanged.
C13_AdmitsInYieldOrder ==
    [][QuerySucceeded' => AdmittedInOrder(last'.args.resp)]_vars

(* ------------------------------- C14 ----------------------------------- *)

IsTxFunc(c) == c[1] = "txFunc"

IsPayload(c) == c[1] = "Payload"

BuildAndSwapReturned == last.op = "BuildAndSwapToMessageBuilder"

\* C14: BuildAndSwapToMessageBuilder always returns a message builder and
\* never an error of its own. If its Build fails, the message builder carries
\* exactly the error of Build, has no payload, and the hook was not invoked.
\* If its Build succeeds, the last call is Payload with the built Transaction,
\* which is the payload of the message builder, and a supplied hook was
\* invoked exactly once, with that Transaction, immediately before Payload.
C14_SwapForwardsBuildOutcome ==
    BuildAndSwapReturned =>
        LET a == last.args
            r == Build(b, a.deSeriParas, a.signer, a.smErr, a.serErr)
            hooks == SelectSeq(last.calls, IsTxFunc)
            pays == SelectSeq(last.calls, IsPayload)
            n == Len(last.calls)
        IN /\ last.ret = "msgBuilder"
           /\ last.err = Nil
           /\ r.err # Nil =>
                 /\ msgBuilder.err = r.err
                 /\ msgBuilder.payload = NilTransaction
                 /\ hooks = <<>>
                 /\ pays = <<>>
           /\ r.err = Nil =>
                 /\ msgBuilder.err = Nil
                 /\ msgBuilder.payload = r.tx
                 /\ Len(pays) = 1
                 /\ IsPayload(last.calls[n])
                 /\ last.calls[n][2] = r.tx
                 /\ a.txFunc = Nil => hooks = <<>>
                 /\ a.txFunc # Nil =>
                       /\ Len(hooks) = 1
                       /\ IsTxFunc(last.calls[n - 1])
                       /\ last.calls[n - 1][2] = r.tx

\* a hand-off with a hook supplied whose Build failed at the signer
C14_Witness ==
    /\ BuildAndSwapReturned
    /\ last.args.txFunc # Nil
    /\ msgBuilder.err = ErrSign
    /\ Len(Inputs) = 2

(* ------------------------------- C16 ----------------------------------- *)

\* the positions a step appended
NewPositions == (Len(Inputs) + 1)..Len(Inputs')

\* the input IDs a step appended
NewIDs == { Inputs'[j] : j \in NewPositions }

\* the signature blocks of a returned Transaction are of the owners Build
\* looked up
BuildSignsForOwners ==
    BuildReturnedTx =>
        \A i \in 1..Len(Inputs) :
            UnlockBlocks[i].type = "Signature" =>
                UnlockBlocks[i].Signature.addr = Owner(i)

\* C16 as stated: the owner Build uses for a position is the address passed
\* to the call that appended the position: a step gives every position it
\* appends the address of its call, no step changes the owner of a position
\* that is already there, and Build signs for those owners.
C16_OwnerIsAppendingAddress ==
    [][/\ \A i \in NewPositions : Owner(i)' = last'.args.addr
       /\ \A i \in 1..Len(Inputs) : Owner(i)' = Owner(i)
       /\ BuildSignsForOwners']_vars

\* C16 amended: the owner Build uses for a position is the address passed to
\* the latest AddInput call for the input ID at that position: a step gives
\* every position it appends, and every earlier position holding an input ID
\* it appends, the address of its call, it leaves the owners of the other
\* positions unchanged, and Build signs for those owners.
C16_OwnerIsLatestAddress ==
    [][/\ \A i \in NewPositions : Owner(i)' = last'.args.addr
       /\ \A i \in 1..Len(Inputs) :
             Owner(i)' = IF Inputs[i] \in NewIDs THEN last'.args.addr ELSE Owner(i)
       /\ BuildSignsForOwners']_vars

\* AddInput has just added, with the second address, the input ID of
\* position 1, for which the latest Build signed with the first address
C16_Witness ==
    /\ last.op = "AddInput"
    /\ Len(Inputs) = 2
    /\ Inputs[1] = last.args.id
    /\ UnlockBlocks # <<>>
    /\ UnlockBlocks[1].type = "Signature"
    /\ UnlockBlocks[1].Signature.addr # last.args.addr
    /\ Owner(1) = last.args.addr

(* ------------------------------- C17 ----------------------------------- *)

C19_ReferenceIsRecordedPosition ==
    (last.op = "UnlockStep" /\ last.ret = "block") =>
        \A k \in DOMAIN UnlockBlocks :
            UnlockBlocks[k].type = "Reference" =>
                UnlockBlocks[k].Reference = last.args.sigBlockPos[String(NarrowAddr)]

====
